---- MODULE Spec2Model ----
(***************************************************************************)
(* Viewport / tile-streaming controller of fractale-front.                 *)
(*                                                                         *)
(* The repository holds three versions of the JuliaSetGenerator component: *)
(*   "tiled"  src/src/components/JuliaSetGenerator.tsx lines 1-403         *)
(*   "frame"  src/src/components/JuliaSetGenerator.tsx lines 405-677       *)
(*   "legacy" src/unnamed/part_000                                         *)
(* One of them is mounted; `variant` says which.                           *)
(*                                                                         *)
(* React semantics used throughout: an event handler, timer callback or    *)
(* effect reads the state captured by the render that created it.  A       *)
(* handler attached to the DOM comes from the latest committed render, so  *)
(* inside an action the unprimed `params` / `tiles` are what the handler's *)
(* closure sees and the primed ones are what setParams / setTiles commit.  *)
(* Callbacks that run later (timers, animation frames, socket handlers)    *)
(* carry their captured values in the state.                               *)
(*                                                                         *)
(* Numbers that the code divides are exact rationals <<num, den>>.         *)
(* Time advances in units of the shortest timer of the code (100 ms).      *)
(***************************************************************************)
EXTENDS Integers, Sequences, FiniteSets, TLC

VARIABLES
    variant,            \* which component is mounted
    mounted,            \* FALSE once the component's cleanup has run
    params,             \* useState<FractalParams>
    mountParams,        \* `params` of the first render (captured by [] closures)
    debouncedParams,    \* useDebounce(params, 300)
    debounceTimer,      \* ticks left on the debounce timer, None when idle
    tiles,              \* useState<Record<string, Tile>> : key -> tile
    image,              \* useState<string | null> of the full-frame variant
    canvas,             \* the drawImage calls of the last renderTiles, in order
    ws,                 \* wsRef.current and the socket it made
    reconnectTimer,     \* ticks left on setTimeout(connectWebSocket, 1000)
    fineTimers,         \* pending setTimeout(..., 100) of requestNewTiles
    isDragging,         \* isDragging.current
    lastMousePosition,  \* lastMousePosition.current
    offsetRef,          \* offsetRef.current
    animationFrameRef,  \* animationFrameRef.current : id of the last frame asked for
    frames,             \* requestAnimationFrame callbacks not yet run
    decoding,           \* images whose src was set and onload has not fired
    gestures,           \* number of user input events handled so far
    arrived,            \* history: key -> payload of the last tile message
    inserted,           \* history: (x, y, lod) put in the cache since a clear
    coarseSent,         \* history: request ids whose coarse message was sent
    requested,          \* history: the viewport of the last request sent
    lastSend            \* history: what the last step sent on the socket, and for
                        \* a delayed message whether its coarse message had gone

connVars  == <<ws, reconnectTimer>>
frameVars == <<animationFrameRef, frames>>
paramVars == <<params, debouncedParams, debounceTimer>>
dragVars  == <<isDragging, lastMousePosition, offsetRef>>
cacheVars == <<tiles, image, canvas, decoding, arrived, inserted>>
constVars == <<variant, mountParams>>
vars == <<variant, mounted, params, mountParams, debouncedParams,
          debounceTimer, tiles, image, canvas, ws, reconnectTimer, fineTimers,
          isDragging, lastMousePosition, offsetRef, animationFrameRef,
          frames, decoding, gestures, arrived, inserted, coarseSent, requested,
          lastSend>>

-----------------------------------------------------------------------------
(* Program constants *)

TILE_SIZE == 128
DEBOUNCE_DELAY == 300
FINE_DELAY == 100
RECONNECT_DELAY == 1000
COARSE_LOD == 4
FINE_LOD == 1
ZOOM_FLOOR_LEGACY == 100
SLIDER_MIN == 100

(* Bounds of the model *)

MaxGestures == 2
MaxFine == 2
MaxDecoding == 2
MaxPending == 1

None == -1
NoSend == [cause |-> "none"]

\* history values for a send that was attempted and put nothing on the wire:
\* skipped by the caller's guard or discarded by the socket, or refused by
\* the socket with an exception
Dropped(by) == [cause |-> "none", dropped |-> by]
Thrown(by) == [cause |-> "error", by |-> by]

TimeUnit == FINE_DELAY
FineTicks == FINE_DELAY \div TimeUnit
DebounceTicks == DEBOUNCE_DELAY \div TimeUnit
ReconnectTicks == RECONNECT_DELAY \div TimeUnit

-----------------------------------------------------------------------------
(* Exact arithmetic on JavaScript numbers: <<n, d>> with d > 0, reduced *)

Abs(n) == IF n < 0 THEN -n ELSE n

RECURSIVE Gcd(_, _)
Gcd(a, b) == IF b = 0 THEN a ELSE Gcd(b, a % b)

Norm(n, d) ==
    LET s == IF d < 0 THEN -1 ELSE 1
        g == Gcd(Abs(n), Abs(d))
    IN  IF n = 0 THEN <<0, 1>> ELSE <<(s * n) \div g, (s * d) \div g>>

Num(i) == <<i, 1>>
RAdd(a, b) == Norm(a[1] * b[2] + b[1] * a[2], a[2] * b[2])
RSub(a, b) == Norm(a[1] * b[2] - b[1] * a[2], a[2] * b[2])
RMul(a, b) == Norm(a[1] * b[1], a[2] * b[2])
RDiv(a, b) == Norm(a[1] * b[2], a[2] * b[1])
RLess(a, b) == a[1] * b[2] < b[1] * a[2]

\* Math.floor(a / b) and Math.ceil(a / b) for integers a and b > 0
Floor(a, b) == a \div b
Ceil(a, b) == -((-a) \div b)

-----------------------------------------------------------------------------
(* Values the environment supplies *)

InitColorings == {1}
ColoringValues == {"12"}
InputNames == {"c.real", "maxIterations"}
SliderValues == {SLIDER_MIN}
MousePositions == {<<100, 100>>, <<400, 50>>, <<50, 100>>}
WheelPoints == {<<0, 0>>}
WheelDeltas == {-100, 100}
TileXs == {0}
TileYs == {0}
Payloads == {"imgA", "imgB", "corrupt"}

\* parseFloat / parseInt of the strings the inputs can hold
parseFloat(s) ==
    CASE s = "-0.69" -> <<-69, 100>>
      [] s = "201" -> <<201, 1>>
      [] s = "150" -> <<150, 1>>

parseInt(s) ==
    CASE s = "1" -> 1
      [] s = "12" -> 12

\* the browser decodes a data URL unless its bytes are not an image
Decodes(payload) == payload # "corrupt"

\* the deliveries of the cache scenario: a fine tile with any payload, a
\* coarse tile at the same place, a message that is no JSON and a message of
\* another type
InboundMessages ==
    [type : {"tile"}, x : TileXs, y : TileYs, lod : {FINE_LOD}, image : Payloads]
    \cup [type : {"tile"}, x : TileXs, y : TileYs, lod : {COARSE_LOD},
          image : {"imgA"}]
    \cup {[type |-> "unparsable"], [type |-> "status"]}

\* the deliveries of the drawing scenario: tiles of three lods at one place
\* (onmessage stores a tile under whatever lod its message names)
DrawMessages ==
    [type : {"tile"}, x : TileXs, y : TileYs, lod : {COARSE_LOD, 2, FINE_LOD},
     image : {"imgA"}]

\* the deliveries of the request-scheduling scenario: one tile, whose payload
\* decodes or not
FewMessages ==
    {[type |-> "tile", x |-> 0, y |-> 0, lod |-> FINE_LOD, image |-> i] :
        i \in {"imgA", "corrupt"}}

-----------------------------------------------------------------------------
(* State after the first render of the tiled component and its effects *)

InitialParams(coloring) ==
    [c |-> [real |-> <<-7, 10>>, imag |-> <<5403, 20000>>],
     center |-> [real |-> Num(0), imag |-> Num(0)],
     zoom |-> Num(250),
     maxIterations |-> Num(200),
     width |-> 1200,
     height |-> 600,
     coloring |-> coloring,
     lod |-> 1]

EmptyTiles == <<>>

TileKeyWithoutLod(x, y, lod) == <<x, y>>

\* `${x},${y},${lod}` : the property name under which a tile is stored
TileKey(x, y, lod) == <<x, y, lod>>

\* tiles[key] is truthy
HasTile(t, key) == key \in DOMAIN t

\* {...prevTiles, [key]: tile}
PutTile(t, key, tile) == (key :> tile) @@ t

\* what of params places a canvas pixel in the plane: the fields handleWheel
\* reads for centerX and centerY
Viewport(p) ==
    [center |-> p.center, zoom |-> p.zoom, width |-> p.width,
     height |-> p.height]

\* the plane region of the tile whose canvas position is (x, y) under the
\* viewport v: the plane point of its corner, at v.zoom pixels per unit
Region(v, x, y) ==
    [real |-> RAdd(v.center.real, RDiv(RSub(Num(x), <<v.width, 2>>), v.zoom)),
     imag |-> RAdd(v.center.imag, RDiv(RSub(Num(y), <<v.height, 2>>), v.zoom)),
     zoom |-> v.zoom]

InitTiled ==
    /\ variant = "tiled"
    /\ mounted = TRUE
    /\ \E col \in InitColorings : params = InitialParams(col)
    /\ mountParams = params
    /\ debouncedParams = params
    /\ debounceTimer = None
    /\ tiles = EmptyTiles
    /\ image = "null"
    /\ canvas = <<>>
    /\ ws = [ref |-> TRUE, readyState |-> "CONNECTING"]
    /\ reconnectTimer = None
    /\ fineTimers = <<>>
    /\ isDragging = FALSE
    /\ lastMousePosition = <<0, 0>>
    /\ offsetRef = <<0, 0>>
    /\ animationFrameRef = 0
    /\ frames = {}
    /\ decoding = {}
    /\ gestures = 0
    /\ arrived = <<>>
    /\ inserted = {}
    /\ coarseSent = {}
    /\ requested = Viewport(params)
    /\ lastSend = NoSend

-----------------------------------------------------------------------------
(* requestNewTiles and getVisibleTiles of the tiled component *)

getVisibleTiles(p, offset) ==
    LET tilesX == Ceil(p.width, TILE_SIZE) + 1
        tilesY == Ceil(p.height, TILE_SIZE) + 1
        startX == Floor(-offset[1], TILE_SIZE) - 1
        startY == Floor(-offset[2], TILE_SIZE) - 1
    IN  {<<x * TILE_SIZE, y * TILE_SIZE>> :
            x \in startX .. (startX + tilesX - 1),
            y \in startY .. (startY + tilesY - 1)}

\* visibleTiles.filter((tile) => !tiles[`${tile},1`])
NewTiles(visibleTiles, t) ==
    {v \in visibleTiles : ~HasTile(t, TileKey(v[1], v[2], 1))}

\* the tile list of the delayed message
FineTiles(visibleTiles, t) == visibleTiles

\* if (wsRef.current && wsRef.current.readyState === WebSocket.OPEN)
CanRequest(w) == w.ref /\ w.readyState = "OPEN"

\* wsRef.current?.send(...) of the delayed callback puts a message on the wire
FineGoesOut(w) == w.ref /\ w.readyState = "OPEN"

\* WebSocket.send throws InvalidStateError on a socket that is still
\* connecting; on a closing or closed socket it discards the data, and with
\* wsRef.current null the ?. skips the call
FineThrows(w) == w.ref /\ w.readyState = "CONNECTING"

SchedulesFineAlways(w) == TRUE

\* is the delayed message scheduled by a call that found the socket in w
SchedulesFine(w) == CanRequest(w)

FreshId ==
    CHOOSE i \in 1 .. (Len(fineTimers) + 1) :
        \A k \in 1 .. Len(fineTimers) : fineTimers[k].id # i

RequestMessage(p, lod, tileList, offset) ==
    [params |-> [p EXCEPT !.lod = lod], tiles |-> tileList, offset |-> offset]

\* requestNewTiles() of the render that saw params p and cache t, called
\* when the socket is in state w and offsetRef.current is `offset`
requestNewTiles(w, p, t, offset, cause) ==
    LET visibleTiles == getVisibleTiles(p, offset)
        id == FreshId
    IN  /\ IF CanRequest(w)
              THEN /\ lastSend' =
                        [cause |-> cause, id |-> id,
                         msg |-> RequestMessage(p, COARSE_LOD,
                                     NewTiles(visibleTiles, t), offset)]
                   /\ coarseSent' = coarseSent \cup {id}
                   /\ requested' = Viewport(p)
              ELSE /\ lastSend' = Dropped(cause)
                   /\ UNCHANGED <<coarseSent, requested>>
        /\ IF SchedulesFine(w)
              THEN fineTimers' = Append(fineTimers,
                        [left |-> FineTicks, id |-> id, params |-> p,
                         visibleTiles |-> FineTiles(visibleTiles, t)])
              ELSE UNCHANGED fineTimers

NoRequest ==
    /\ lastSend' = NoSend
    /\ UNCHANGED <<fineTimers, coarseSent, requested>>

\* the callback of setTimeout(() => wsRef.current?.send(...), 100)
FineTimerFires ==
    /\ fineTimers # <<>>
    /\ Head(fineTimers).left = 0
    /\ LET t == Head(fineTimers)
       IN  /\ lastSend' =
                IF FineGoesOut(ws)
                   THEN [cause |-> "fine", id |-> t.id,
                         afterCoarse |-> t.id \in coarseSent,
                         msg |-> RequestMessage(t.params, FINE_LOD,
                                     t.visibleTiles, offsetRef)]
                   ELSE IF FineThrows(ws) THEN Thrown("fine")
                   ELSE Dropped("fine")
           /\ coarseSent' = coarseSent \ {t.id}
           /\ requested' = IF FineGoesOut(ws) THEN Viewport(t.params)
                                              ELSE requested
    /\ fineTimers' = Tail(fineTimers)
    /\ UNCHANGED <<constVars, mounted, paramVars, cacheVars, connVars,
                   dragVars, frameVars, gestures>>

-----------------------------------------------------------------------------
(* renderTiles of the tiled component *)

\* Object.values(tiles)
Values(t) == {t[k] : k \in DOMAIN t}

SortAscending(a, b) == a.lod < b.lod

\* the comparator (a, b) => b.lod - a.lod is negative: a goes before b
SortBefore(a, b) == a.lod > b.lod

\* .sort(comparator) of a set of tiles: no tile is preceded by one that the
\* comparator puts after it.  Tiles of equal lod keep their order of
\* insertion, which the cache does not record: one order stands for it here.
RECURSIVE Sorted(_)
Sorted(S) ==
    IF S = {} THEN <<>>
    ELSE LET first == CHOOSE a \in S : \A b \in S : ~SortBefore(b, a)
         IN  <<first>> \o Sorted(S \ {first})

\* ctx.drawImage(tile.image, tile.x + offsetRef.current.x, ...)
drawImage(tile, offset) ==
    [x |-> tile.x, y |-> tile.y, lod |-> tile.lod, image |-> tile.image,
     at |-> <<tile.x + offset[1], tile.y + offset[2]>>]

\* .filter((tile) => tile.lod === 1) keeps the order of Object.values, which
\* for tiles of one lod is their order in the sorted list
IsFine(tile) == tile.lod = FINE_LOD

\* the draws of renderTiles() for the cache t of its render: after clearRect
\* every tile from the coarsest lod down, then the lod 1 tiles once more
renderTiles(t, offset) ==
    LET all == Sorted(Values(t))
        passes == all \o SelectSeq(all, IsFine)
    IN  [i \in 1 .. Len(passes) |-> drawImage(passes[i], offset)]

-----------------------------------------------------------------------------
(* Connection of the tiled component: connectWebSocket and its handlers *)

\* wsRef.current = new WebSocket(...)
NewSocket == [ref |-> TRUE, readyState |-> "CONNECTING"]

\* what wsRef and the socket are once onclose has run
AfterOnclose(w) == [ref |-> FALSE, readyState |-> "CLOSED"]

OncloseTimerBeforeFine == FineTicks - 1

\* the timer onclose leaves behind
OncloseTimer == ReconnectTicks

\* the socket opens; onopen runs the requestNewTiles of the first render
onopen ==
    /\ variant = "tiled"
    /\ ws.readyState = "CONNECTING"
    /\ ws' = [ws EXCEPT !.readyState = "OPEN"]
    /\ requestNewTiles(ws', mountParams, EmptyTiles, offsetRef, "onopen")
    /\ UNCHANGED <<constVars, mounted, paramVars, cacheVars, reconnectTimer,
                   dragVars, frameVars, gestures>>

\* the socket closes (connection refused, error, remote or local close)
onclose ==
    /\ variant = "tiled"
    /\ ws.readyState \in {"CONNECTING", "OPEN", "CLOSING"}
    /\ ws' = AfterOnclose(ws)
    /\ reconnectTimer' = OncloseTimer
    /\ NoRequest
    /\ UNCHANGED <<constVars, mounted, paramVars, cacheVars, dragVars,
                   frameVars, gestures>>

\* setTimeout(connectWebSocket, 1000) fires
connectWebSocket ==
    /\ variant = "tiled"
    /\ reconnectTimer = 0
    /\ reconnectTimer' = None
    /\ ws' = NewSocket
    /\ NoRequest
    /\ UNCHANGED <<constVars, mounted, paramVars, cacheVars, dragVars,
                   frameVars, gestures>>

-----------------------------------------------------------------------------
(* Parameter edits of the tiled component and the debounce hook *)

\* useDebounce(params, 300) sees a new params object: its timer starts again
RestartDebounce == debounceTimer' = DebounceTicks

\* useDebounce's timer runs out: debouncedParams takes the value it waited on,
\* which is the latest params
Settle ==
    /\ debounceTimer = 0
    /\ debounceTimer' = None
    /\ debouncedParams' = params

\* setParams commits a new object, which the debounce hook then sees
setParams(p) ==
    /\ params' = p
    /\ RestartDebounce
    /\ UNCHANGED debouncedParams

InputValuesOf(name) ==
    CASE name = "maxIterations" -> {"201"}
      [] name = "zoom" -> {"150"}
      [] OTHER -> {"-0.69"}

handleInputChange ==
    /\ variant = "tiled"
    /\ mounted
    /\ gestures < MaxGestures
    /\ gestures' = gestures + 1
    /\ \E name \in InputNames : \E value \in InputValuesOf(name) :
          LET numericValue == parseFloat(value)
          IN  setParams(CASE name = "c.real" ->
                                [params EXCEPT !.c.real = numericValue]
                          [] name = "c.imag" ->
                                [params EXCEPT !.c.imag = numericValue]
                          [] name = "maxIterations" ->
                                [params EXCEPT !.maxIterations = numericValue])
    /\ NoRequest
    /\ UNCHANGED <<constVars, mounted, cacheVars, connVars, dragVars,
                   frameVars>>

handleColoringChange ==
    /\ variant = "tiled"
    /\ mounted
    /\ gestures < MaxGestures
    /\ gestures' = gestures + 1
    /\ \E value \in ColoringValues :
          setParams([params EXCEPT !.coloring = parseInt(value)])
    /\ NoRequest
    /\ UNCHANGED <<constVars, mounted, cacheVars, connVars, dragVars,
                   frameVars>>

\* onValueChange of the zoom slider
onValueChange ==
    /\ variant = "tiled"
    /\ mounted
    /\ gestures < MaxGestures
    /\ gestures' = gestures + 1
    /\ \E value \in SliderValues :
          setParams([params EXCEPT !.zoom = Num(value)])
    /\ NoRequest
    /\ UNCHANGED <<constVars, mounted, cacheVars, connVars, dragVars,
                   frameVars>>

\* debouncedParams changes and the effect on [debouncedParams] calls the
\* requestNewTiles of the render that shows the change
debouncedParamsEffect ==
    /\ variant = "tiled"
    /\ Settle
    /\ requestNewTiles(ws, params, tiles, offsetRef, "debounce")
    /\ UNCHANGED <<constVars, mounted, params, cacheVars, connVars, dragVars,
                   frameVars, gestures>>

\* onClick={requestNewTiles} of the "Generate Julia Set" button
onClick ==
    /\ variant = "tiled"
    /\ mounted
    /\ gestures < MaxGestures
    /\ gestures' = gestures + 1
    /\ Len(fineTimers) < MaxFine
    /\ requestNewTiles(ws, params, tiles, offsetRef, "click")
    /\ UNCHANGED <<constVars, mounted, paramVars, cacheVars, connVars,
                   dragVars, frameVars>>

-----------------------------------------------------------------------------
(* Pointer and wheel handlers of the tiled component *)

AfterNoCancel(pending, ref) == pending

\* if (animationFrameRef.current) cancelAnimationFrame(animationFrameRef.current)
AfterCancel(pending, ref) == {f \in pending : f.id # ref}

\* cancel the frame animationFrameRef names, then requestAnimationFrame(cb).
\* A pending callback is kept with what its closure captured (params, tiles)
\* and, as history, the params its event committed (computed).
ScheduleFrame(cb) ==
    LET kept == AfterCancel(frames, animationFrameRef)
        id == CHOOSE i \in 1 .. (Cardinality(kept) + 1) :
                  \A f \in kept : f.id # i
    IN  /\ frames' = kept \cup {[cb EXCEPT !.id = id]}
        /\ animationFrameRef' = id

handleMouseDown ==
    /\ variant = "tiled"
    /\ mounted
    /\ gestures < MaxGestures
    /\ gestures' = gestures + 1
    /\ \E pos \in MousePositions :
          /\ isDragging' = TRUE
          /\ lastMousePosition' = pos
    /\ NoRequest
    /\ UNCHANGED <<constVars, mounted, paramVars, cacheVars, connVars,
                   offsetRef, frameVars>>

\* Math.abs(offset.x) >= TILE_SIZE || Math.abs(offset.y) >= TILE_SIZE
Crosses(offset) == Abs(offset[1]) >= TILE_SIZE \/ Abs(offset[2]) >= TILE_SIZE

\* a conversion of one tile per move, whatever the size of the offset
TileOffsetOne(o) == IF o < 0 THEN -1 ELSE 1

\* Math.floor(offset / TILE_SIZE)
TileOffset(o) == Floor(o, TILE_SIZE)

\* a center moved with the drag instead of against it
ShiftedCenterAdds(p, tileOffsetX, tileOffsetY) ==
    [real |-> RAdd(p.center.real,
                   RDiv(Num(tileOffsetX * TILE_SIZE), p.zoom)),
     imag |-> RAdd(p.center.imag,
                   RDiv(Num(tileOffsetY * TILE_SIZE), p.zoom))]

\* the center the setParams updater of handleMouseMove returns
ShiftedCenter(p, tileOffsetX, tileOffsetY) ==
    [real |-> RSub(p.center.real,
                   RDiv(Num(tileOffsetX * TILE_SIZE), p.zoom)),
     imag |-> RSub(p.center.imag,
                   RDiv(Num(tileOffsetY * TILE_SIZE), p.zoom))]

handleMouseMove ==
    /\ variant = "tiled"
    /\ mounted
    /\ isDragging
    /\ gestures < MaxGestures
    /\ Len(fineTimers) < MaxFine
    /\ gestures' = gestures + 1
    /\ \E pos \in MousePositions :
          LET dx == pos[1] - lastMousePosition[1]
              dy == pos[2] - lastMousePosition[2]
              moved == <<offsetRef[1] + dx, offsetRef[2] + dy>>
              tileOffsetX == TileOffset(moved[1])
              tileOffsetY == TileOffset(moved[2])
              kept == <<moved[1] - tileOffsetX * TILE_SIZE,
                        moved[2] - tileOffsetY * TILE_SIZE>>
          IN  /\ IF Crosses(moved)
                    THEN /\ setParams([params EXCEPT !.center =
                               ShiftedCenter(params, tileOffsetX, tileOffsetY)])
                         /\ offsetRef' = kept
                         /\ requestNewTiles(ws, params, tiles, kept, "move")
                    ELSE /\ offsetRef' = moved
                         /\ NoRequest
                         /\ UNCHANGED paramVars
              /\ lastMousePosition' = pos
    /\ ScheduleFrame([id |-> 0, kind |-> "move", params |-> params,
                      tiles |-> tiles, computed |-> params'])
    /\ UNCHANGED <<constVars, mounted, cacheVars, connVars, isDragging>>

handleMouseUp ==
    /\ variant = "tiled"
    /\ mounted
    /\ gestures < MaxGestures
    /\ gestures' = gestures + 1
    /\ isDragging
    /\ isDragging' = FALSE
    /\ NoRequest
    /\ UNCHANGED <<constVars, mounted, paramVars, cacheVars, connVars,
                   lastMousePosition, offsetRef, frameVars>>

\* e.deltaY > 0 ? 0.9 : 1.1
ZoomFactor(deltaY) == IF deltaY > 0 THEN <<9, 10>> ELSE <<11, 10>>

\* the plane point under canvas position (x, y): centerX and centerY of
\* handleWheel
pixelToPlane(p, x, y) ==
    [real |-> RAdd(p.center.real, RDiv(RSub(Num(x), <<p.width, 2>>), p.zoom)),
     imag |-> RAdd(p.center.imag, RDiv(RSub(Num(y), <<p.height, 2>>), p.zoom))]

ZoomedAboutCenter(prev, zoomFactor, mouseX, mouseY) ==
    [prev EXCEPT !.zoom = RMul(prev.zoom, zoomFactor)]

\* the object the setParams updater of handleWheel returns
Zoomed(prev, zoomFactor, mouseX, mouseY) ==
    LET centerX == RAdd(prev.center.real,
                        RDiv(RSub(Num(mouseX), <<prev.width, 2>>), prev.zoom))
        centerY == RAdd(prev.center.imag,
                        RDiv(RSub(Num(mouseY), <<prev.height, 2>>), prev.zoom))
        newZoom == RMul(prev.zoom, zoomFactor)
    IN  [prev EXCEPT
            !.zoom = newZoom,
            !.center = [real |-> RAdd(centerX,
                                   RDiv(RSub(prev.center.real, centerX),
                                        zoomFactor)),
                        imag |-> RAdd(centerY,
                                   RDiv(RSub(prev.center.imag, centerY),
                                        zoomFactor))]]

handleWheel ==
    /\ variant = "tiled"
    /\ mounted
    /\ gestures < MaxGestures
    /\ gestures' = gestures + 1
    /\ \E deltaY \in WheelDeltas : \E point \in WheelPoints :
          setParams(Zoomed(params, ZoomFactor(deltaY), point[1], point[2]))
    /\ ScheduleFrame([id |-> 0, kind |-> "wheel", params |-> params,
                      tiles |-> tiles, computed |-> params'])
    /\ NoRequest
    /\ UNCHANGED <<constVars, mounted, cacheVars, connVars, dragVars>>

\* the browser runs a pending animation-frame callback: the renderTiles it
\* captured (a no-op once the canvas is gone), and for the callback of
\* handleWheel also the requestNewTiles it captured
animationFrame ==
    /\ variant = "tiled"
    /\ \E f \in frames :
          /\ frames' = frames \ {f}
          /\ canvas' = IF mounted THEN renderTiles(f.tiles, offsetRef)
                                  ELSE canvas
          /\ IF f.kind = "wheel"
                THEN requestNewTiles(ws, f.params, f.tiles, offsetRef, "wheel")
                ELSE NoRequest
    /\ UNCHANGED <<constVars, mounted, paramVars, tiles, image, decoding,
                   arrived, inserted, connVars, dragVars, animationFrameRef,
                   gestures>>

-----------------------------------------------------------------------------
(* Inbound messages of the tiled component *)

\* the message `data` arrives: JSON.parse (which throws out of the handler
\* on text that is no JSON), then for a tile message a new Image whose src is
\* set; decoding finishes later
receive(data, cap) ==
    /\ variant = "tiled"
    /\ ws.readyState = "OPEN"
    /\ Cardinality(decoding) < cap
    /\ IF data.type = "tile"
          THEN /\ decoding' = decoding \cup
                      {[x |-> data.x, y |-> data.y, lod |-> data.lod,
                        image |-> data.image,
                        shows |-> Region(requested, data.x, data.y)]}
               /\ arrived' = (<<data.x, data.y, data.lod>> :> data.image)
                                 @@ arrived
          ELSE UNCHANGED <<decoding, arrived>>
    /\ NoRequest
    /\ UNCHANGED <<constVars, mounted, paramVars, tiles, image, canvas, inserted,
                   connVars, dragVars, frameVars, gestures>>

onmessage(messages, cap) == \E data \in messages : receive(data, cap)

\* img.onload of one of the images being decoded, in any order; the new
\* tiles object makes the effect on [tiles, width, height] draw it
onload ==
    /\ variant = "tiled"
    /\ \E d \in decoding :
              /\ Decodes(d.image)
              /\ decoding' = decoding \ {d}
              /\ IF mounted
                    THEN /\ tiles' = PutTile(tiles, TileKey(d.x, d.y, d.lod),
                                 [x |-> d.x, y |-> d.y, lod |-> d.lod,
                                  image |-> d.image, shows |-> d.shows])
                         /\ inserted' = inserted \cup {<<d.x, d.y, d.lod>>}
                         /\ canvas' = renderTiles(tiles', offsetRef)
                    ELSE UNCHANGED <<tiles, inserted, canvas>>
    /\ NoRequest
    /\ UNCHANGED <<constVars, mounted, paramVars, image, arrived, connVars,
                   dragVars, frameVars, gestures>>

\* an image that cannot be decoded never fires onload
decodeFails ==
    /\ variant = "tiled"
    /\ \E d \in decoding :
          /\ ~Decodes(d.image)
          /\ decoding' = decoding \ {d}
    /\ NoRequest
    /\ UNCHANGED <<constVars, mounted, paramVars, tiles, image, canvas, arrived,
                   inserted, connVars, dragVars, frameVars, gestures>>

-----------------------------------------------------------------------------
(* Time and unmounting *)

Due(t) == t = 0
Running(t) == t # None
Elapse(t) == IF t = None THEN None ELSE t - 1

\* 100 ms pass: possible only when no callback is due
Tick ==
    /\ frames = {}
    /\ ~Due(debounceTimer) /\ ~Due(reconnectTimer)
    /\ \A k \in 1 .. Len(fineTimers) : ~Due(fineTimers[k].left)
    /\ Running(debounceTimer) \/ Running(reconnectTimer) \/ fineTimers # <<>>
    /\ debounceTimer' = Elapse(debounceTimer)
    /\ reconnectTimer' = Elapse(reconnectTimer)
    /\ fineTimers' = [k \in 1 .. Len(fineTimers) |->
                        [fineTimers[k] EXCEPT !.left = @ - 1]]
    /\ lastSend' = NoSend
    /\ UNCHANGED <<constVars, mounted, params, debouncedParams, cacheVars, ws,
                   dragVars, frameVars, gestures, coarseSent, requested>>

\* the cleanup of the effect that connected: wsRef.current.close()
Closed(w) == IF w.ref /\ w.readyState \in {"CONNECTING", "OPEN"}
                THEN [w EXCEPT !.readyState = "CLOSING"]
                ELSE w

\* after the unmount React ignores the state setters and runs no effect, so
\* the debounce timer has nothing left to do
unmount ==
    /\ variant = "tiled"
    /\ mounted
    /\ mounted' = FALSE
    /\ ws' = Closed(ws)
    /\ debounceTimer' = None
    /\ NoRequest
    /\ UNCHANGED <<constVars, params, debouncedParams, cacheVars,
                   reconnectTimer, dragVars, frameVars, gestures>>

-----------------------------------------------------------------------------
(* The legacy component (src/unnamed/part_000) *)

LegacyInputNames == {"c.real", "zoom", "maxIterations"}

\* a tile message, text that is no JSON, and a JSON message that is no tile
LegacyMessages ==
    [type : {"tile"}, x : TileXs, y : TileYs, zoom : {100, 110},
     data : {"imgA", "imgB"}]
    \cup {[type |-> "unparsable"], [type |-> "status"]}

\* msg.f of a parsed message: undefined when the field is missing
Field(msg, f) == IF f \in DOMAIN msg THEN msg[f] ELSE "undefined"

\* ${msg.f} : the text a template literal makes of the field
FieldText(msg, f) == IF f \in DOMAIN msg THEN ToString(msg[f]) ELSE "undefined"

InitialParamsLegacy ==
    [c |-> [real |-> <<-7, 10>>, imag |-> <<5403, 20000>>],
     center |-> [real |-> Num(0), imag |-> Num(0)],
     zoom |-> Num(100),
     maxIterations |-> Num(100),
     width |-> 800,
     height |-> 600,
     offsetX |-> 0,
     offsetY |-> 0]

InitLegacy ==
    /\ variant = "legacy"
    /\ mounted = TRUE
    /\ params = InitialParamsLegacy
    /\ mountParams = params
    /\ debouncedParams = params
    /\ debounceTimer = None
    /\ tiles = EmptyTiles
    /\ image = "null"
    /\ canvas = <<>>
    /\ ws = [ref |-> TRUE, readyState |-> "CONNECTING"]
    /\ reconnectTimer = None
    /\ fineTimers = <<>>
    /\ isDragging = FALSE
    /\ lastMousePosition = <<0, 0>>
    /\ offsetRef = <<0, 0>>
    /\ animationFrameRef = 0
    /\ frames = {}
    /\ decoding = {}
    /\ gestures = 0
    /\ arrived = <<>>
    /\ inserted = {}
    /\ coarseSent = {}
    /\ requested = Viewport(params)
    /\ lastSend = NoSend

legacyIdle == <<constVars, mounted, debouncedParams, debounceTimer, image, canvas,
                reconnectTimer, fineTimers, offsetRef, frameVars, decoding,
                coarseSent, requested>>

\* the legacy socket has no onopen and no onclose handler
socketOpens ==
    /\ variant = "legacy"
    /\ ws.readyState = "CONNECTING"
    /\ ws' = [ws EXCEPT !.readyState = "OPEN"]
    /\ lastSend' = NoSend
    /\ UNCHANGED <<legacyIdle, arrived, params, tiles, inserted, isDragging,
                   lastMousePosition, gestures>>

socketCloses ==
    /\ variant = "legacy"
    /\ ws.readyState \in {"CONNECTING", "OPEN", "CLOSING"}
    /\ ws' = [ws EXCEPT !.readyState = "CLOSED"]
    /\ lastSend' = NoSend
    /\ UNCHANGED <<legacyIdle, arrived, params, tiles, inserted, isDragging,
                   lastMousePosition, gestures>>

\* `${tileMsg.x},${tileMsg.y},${tileMsg.zoom}`
LegacyKey(tileMsg) ==
    <<FieldText(tileMsg, "x"), FieldText(tileMsg, "y"),
      FieldText(tileMsg, "zoom")>>

\* the message arrives: JSON.parse, then setTiles under the key its fields
\* make, whatever the message is
receiveLegacy(tileMsg) ==
    /\ variant = "legacy"
    /\ ws.readyState = "OPEN"
    /\ IF tileMsg.type # "unparsable"
          THEN /\ tiles' = PutTile(tiles, LegacyKey(tileMsg),
                                   Field(tileMsg, "data"))
               /\ inserted' = inserted \cup {LegacyKey(tileMsg)}
               /\ arrived' = (LegacyKey(tileMsg) :> Field(tileMsg, "data"))
                                 @@ arrived
          ELSE UNCHANGED <<tiles, inserted, arrived>>
    /\ lastSend' = NoSend
    /\ UNCHANGED <<legacyIdle, params, ws, isDragging, lastMousePosition,
                   gestures>>

onmessageLegacy == \E tileMsg \in LegacyMessages : receiveLegacy(tileMsg)

\* updateJuliaSet() of the render that saw params p
updateJuliaSet(p, cause) ==
    IF ws.ref /\ ws.readyState = "OPEN"
       THEN /\ tiles' = EmptyTiles
            /\ inserted' = {}
            /\ lastSend' = [cause |-> cause, id |-> 0, msg |-> [params |-> p]]
       ELSE /\ lastSend' = NoSend
            /\ UNCHANGED <<tiles, inserted>>

handleInputChangeLegacy ==
    /\ variant = "legacy"
    /\ mounted
    /\ gestures < MaxGestures
    /\ gestures' = gestures + 1
    /\ \E name \in LegacyInputNames : \E value \in InputValuesOf(name) :
          params' = CASE name = "c.real" ->
                            [params EXCEPT !.c.real = parseFloat(value)]
                      [] name = "zoom" ->
                            [params EXCEPT !.zoom = parseFloat(value)]
                      [] name = "maxIterations" ->
                            [params EXCEPT !.maxIterations = parseFloat(value)]
    /\ lastSend' = NoSend
    /\ UNCHANGED <<legacyIdle, arrived, tiles, inserted, ws, isDragging,
                   lastMousePosition>>

handleMouseDownLegacy ==
    /\ variant = "legacy"
    /\ mounted
    /\ gestures < MaxGestures
    /\ gestures' = gestures + 1
    /\ \E pos \in MousePositions :
          /\ isDragging' = TRUE
          /\ lastMousePosition' = pos
    /\ lastSend' = NoSend
    /\ UNCHANGED <<legacyIdle, arrived, params, tiles, inserted, ws>>

handleMouseMoveLegacy ==
    /\ variant = "legacy"
    /\ mounted
    /\ isDragging
    /\ gestures < MaxGestures
    /\ gestures' = gestures + 1
    /\ \E pos \in MousePositions :
          LET dx == pos[1] - lastMousePosition[1]
              dy == pos[2] - lastMousePosition[2]
          IN  /\ params' = [params EXCEPT !.offsetX = @ - dx,
                                          !.offsetY = @ - dy]
              /\ lastMousePosition' = pos
    /\ lastSend' = NoSend
    /\ UNCHANGED <<legacyIdle, arrived, tiles, inserted, ws, isDragging>>

\* onMouseUp and onMouseLeave
handleMouseUpLegacy ==
    /\ variant = "legacy"
    /\ mounted
    /\ gestures < MaxGestures
    /\ gestures' = gestures + 1
    /\ isDragging' = FALSE
    /\ updateJuliaSet(params, "mouseup")
    /\ UNCHANGED <<legacyIdle, arrived, params, ws, lastMousePosition>>

\* e.deltaY > 0 ? 1.1 : 0.9
ZoomFactorLegacy(deltaY) == IF deltaY > 0 THEN <<11, 10>> ELSE <<9, 10>>

\* newZoom < 100 ? 100 : newZoom
ClampLegacy(newZoom) ==
    IF RLess(newZoom, Num(ZOOM_FLOOR_LEGACY))
       THEN Num(ZOOM_FLOOR_LEGACY) ELSE newZoom

handleWheelLegacy ==
    /\ variant = "legacy"
    /\ mounted
    /\ gestures < MaxGestures
    /\ gestures' = gestures + 1
    /\ \E deltaY \in WheelDeltas :
          params' = [params EXCEPT !.zoom =
                        ClampLegacy(RMul(params.zoom, ZoomFactorLegacy(deltaY)))]
    /\ updateJuliaSet(params, "wheel")
    /\ UNCHANGED <<legacyIdle, arrived, ws, isDragging, lastMousePosition>>

\* onClick={updateJuliaSet}
onClickLegacy ==
    /\ variant = "legacy"
    /\ mounted
    /\ gestures < MaxGestures
    /\ gestures' = gestures + 1
    /\ updateJuliaSet(params, "click")
    /\ UNCHANGED <<legacyIdle, arrived, params, ws, isDragging, lastMousePosition>>

unmountLegacy ==
    /\ variant = "legacy"
    /\ mounted
    /\ mounted' = FALSE
    /\ ws' = Closed(ws)
    /\ lastSend' = NoSend
    /\ UNCHANGED <<constVars, debouncedParams, debounceTimer, image, canvas,
                   reconnectTimer, fineTimers, offsetRef, frameVars, decoding,
                   arrived, coarseSent, requested, params, tiles, inserted,
                   isDragging,
                   lastMousePosition, gestures>>

Legacy ==
    \/ socketOpens \/ socketCloses \/ onmessageLegacy
    \/ handleInputChangeLegacy \/ handleMouseDownLegacy
    \/ handleMouseMoveLegacy \/ handleMouseUpLegacy \/ handleWheelLegacy
    \/ onClickLegacy \/ unmountLegacy

-----------------------------------------------------------------------------

Init == InitTiled

Next ==
    \/ onopen \/ onclose \/ connectWebSocket
    \/ handleInputChange \/ handleColoringChange \/ onValueChange
    \/ debouncedParamsEffect \/ onClick \/ FineTimerFires
    \/ handleMouseDown \/ handleMouseMove \/ handleMouseUp \/ handleWheel
    \/ animationFrame
    \/ onmessage(FewMessages, MaxPending) \/ onload \/ decodeFails
    \/ Tick \/ unmount

Spec == Init /\ [][Next]_vars

(* The cache scenario: every delivery the server can make, both components
   that keep a tile cache, no passage of time (no timer runs out and no
   animation frame comes) *)

InitCache == InitTiled \/ InitLegacy

NextCache ==
    \/ onopen
    \/ onmessage(InboundMessages, MaxDecoding) \/ onload \/ decodeFails
    \/ handleInputChange \/ handleColoringChange
    \/ handleMouseDown \/ handleMouseMove \/ handleMouseUp \/ handleWheel
    \/ Legacy

SpecCache == InitCache /\ [][NextCache]_vars

(* The drawing scenario: tiles of any lod arrive while the user drags and
   zooms; no timer runs out *)

NextDraw ==
    \/ onopen
    \/ onmessage(DrawMessages, MaxDecoding) \/ onload
    \/ handleMouseDown \/ handleMouseMove \/ handleMouseUp \/ handleWheel
    \/ animationFrame

SpecDraw == InitTiled /\ [][NextDraw]_vars

(* The connection scenario with the scheduling the browser guarantees: time
   passes, and a timer or animation frame that is due runs.  Nothing is
   assumed of the network or of the user. *)

InitLive == InitTiled \/ InitLegacy

NextLive == Next \/ Legacy

Fairness ==
    /\ WF_vars(Tick)
    /\ WF_vars(connectWebSocket)
    /\ WF_vars(FineTimerFires)
    /\ WF_vars(debouncedParamsEffect)
    /\ WF_vars(animationFrame)

SpecLive == InitLive /\ [][NextLive]_vars /\ Fairness

-----------------------------------------------------------------------------
(* Claims *)

\* what a request message says about the viewport and the fractal: its params
\* apart from the lod the message asks for
Carried(msg) == [msg.params EXCEPT !.lod = params.lod]

\* C1: whenever the socket goes from Connecting to Connected, that step sends
\* a request, and the request carries the params in effect at that moment.
C1_OpenSendsCurrentParams ==
    [][(ws.readyState = "CONNECTING" /\ ws'.readyState = "OPEN")
          => (lastSend'.cause = "onopen" /\ Carried(lastSend'.msg) = params')]_vars

\* C2: while the component is mounted, a closed connection is always
\* followed by a new connection attempt.
C2_ClosedLeadsToConnecting ==
    (mounted /\ ws.readyState = "CLOSED")
        ~> (ws.readyState = "CONNECTING" \/ ~mounted)

\* C3: a delayed fine message never carries a viewport or parameters older
\* than the current ones (a stale one is cancelled instead of sent).
C3_FineCarriesCurrentParams ==
    lastSend.cause = "fine" => Carried(lastSend.msg) = params

\* the requests that a change of the viewport issues by itself
ChangeCauses == {"move", "wheel"}

\* C4: while a burst of changes is still inside its debounce window no change
\* of the burst produces a request, and the one request the debounce issues
\* at the end carries the parameters of the last change.
C4_BurstSendsOnce ==
    /\ Running(debounceTimer) => lastSend.cause \notin ChangeCauses
    /\ lastSend.cause = "debounce" => Carried(lastSend.msg) = params

\* the fields of params that decide what a tile shows
Fractal(p) == <<p.c, p.maxIterations, Field(p, "coloring")>>

\* C5: a step that changes c, maxIterations or coloring leaves the tile cache
\* empty.
C5_ParamChangeClearsCache ==
    [][Fractal(params') # Fractal(params) => tiles' = EmptyTiles]_vars

\* the pointer and wheel handlers of the two components that cache tiles
PanOrZoom ==
    \/ handleMouseDown \/ handleMouseMove \/ handleMouseUp \/ handleWheel
    \/ handleMouseDownLegacy \/ handleMouseMoveLegacy
    \/ handleMouseUpLegacy \/ handleWheelLegacy

\* C6: a pointer-down, pointer-move, pointer-up or wheel step keeps every
\* cached tile in the cache under its key.
C6_PanZoomKeepsCache ==
    [][PanOrZoom => \A k \in DOMAIN tiles :
                        k \in DOMAIN tiles' /\ tiles'[k] = tiles[k]]_vars

\* C7 as stated: once every delivered image has been handled, the cache of
\* the tiled component holds as many entries as distinct keys were delivered.
C7_EntriesEqualDelivered ==
    (variant = "tiled" /\ decoding = {})
        => Cardinality(DOMAIN tiles) = Cardinality(DOMAIN arrived)

\* a step that stores a delivered tile
Stores == (onload \/ onmessageLegacy) /\ tiles' # tiles

\* C7 as amended: the cache holds one entry for each distinct key stored
\* since it was last cleared, and a step that stores a tile leaves every
\* entry but the one of its key as it was.
C7_OneEntryPerStoredKey ==
    /\ [](Cardinality(DOMAIN tiles) = Cardinality(inserted))
    /\ [][Stores => \E k \in DOMAIN tiles' :
                       /\ DOMAIN tiles' = DOMAIN tiles \cup {k}
                       /\ \A j \in DOMAIN tiles \ {k} : tiles'[j] = tiles[j]]_vars

\* C7's case: two keys are cached and the entry of (0, 0, lod 1) was
\* replaced: imgA, the last to arrive, was stored and then imgB over it.
C7_Witness ==
    /\ variant = "tiled"
    /\ Cardinality(DOMAIN tiles) = 2
    /\ decoding = {}
    /\ <<0, 0, 1>> \in DOMAIN tiles
    /\ tiles[<<0, 0, 1>>].image = "imgB"
    /\ arrived[<<0, 0, 1>>] = "imgA"

\* C8: when the images of all messages for a key have been decoded, the
\* entry of the key holds the payload of the message that arrived last.
C8_LastArrivedWins ==
    variant = "tiled" =>
        \A k \in DOMAIN tiles :
            (Decodes(arrived[k]) /\ \A d \in decoding : <<d.x, d.y, d.lod>> # k)
                => tiles[k].image = arrived[k]

\* C9: a fine message goes out only after the coarse message of the same
\* requestNewTiles call has gone out.
C9_CoarseBeforeFine ==
    /\ lastSend.cause = "fine" => lastSend.afterCoarse
    /\ \A k \in 1 .. Len(fineTimers) : fineTimers[k].id \in coarseSent

\* C9's case: a fine message has just been sent
C9_Witness == lastSend.cause = "fine" /\ lastSend.msg.params.lod = FINE_LOD

\* C10: no request lists a tile that the cache already holds at the lod the
\* request asks for.
C10_RequestsOnlyMissingTiles ==
    lastSend.cause # "none" =>
        \A v \in lastSend.msg.tiles :
            ~HasTile(tiles, TileKey(v[1], v[2], lastSend.msg.params.lod))

\* the steps that call requestNewTiles or run its delayed send
RequestAttempt ==
    \/ onClick \/ debouncedParamsEffect \/ handleMouseMove \/ animationFrame
    \/ FineTimerFires

\* C11: a request attempted while the socket is not open puts nothing on the
\* wire, raises no error, schedules no delayed message, and leaves the cache
\* and (but for the pointer-move's own re-centring) the params as they were.
C11_NoSendUnlessOpen ==
    [][(RequestAttempt /\ ws.readyState # "OPEN")
          => /\ lastSend'.cause = "none"
             /\ Len(fineTimers') <= Len(fineTimers)
             /\ tiles' = tiles
             /\ (~handleMouseMove => params' = params)]_vars

\* C11's case: a delayed fine message came due after the socket had closed
\* and was dropped
C11_Witness ==
    /\ lastSend = Dropped("fine")
    /\ ws.readyState = "CLOSED"
    /\ Running(reconnectTimer)

\* C12: each component of the pan offset is in [0, TILE_SIZE) after every
\* pointer-move (the offset changes in no other step).
C12_OffsetInTile ==
    variant = "tiled" =>
        /\ offsetRef[1] \in 0 .. (TILE_SIZE - 1)
        /\ offsetRef[2] \in 0 .. (TILE_SIZE - 1)

\* the offset a pointer-move step has accumulated before it re-centres
Accumulated ==
    <<offsetRef[1] + (lastMousePosition'[1] - lastMousePosition[1]),
      offsetRef[2] + (lastMousePosition'[2] - lastMousePosition[2])>>

\* the number of complete tiles contained in an offset, with its sign
WholeTiles(o) ==
    IF o < 0 THEN -((-o) \div TILE_SIZE) ELSE o \div TILE_SIZE

\* C13: a pointer-move that re-centres converts, on each axis, the complete
\* tiles contained in the accumulated offset: the center shifts by that many
\* tiles and the offset keeps the rest, so an axis below one tile shifts by 0
\* and keeps its offset ((300, -50) gives 2 and 0 tiles and leaves (44, -50)).
C13_ConvertsWholeTiles ==
    [][(handleMouseMove /\ Crosses(Accumulated))
          => /\ offsetRef' =
                    <<Accumulated[1] - WholeTiles(Accumulated[1]) * TILE_SIZE,
                      Accumulated[2] - WholeTiles(Accumulated[2]) * TILE_SIZE>>
             /\ params'.center =
                    ShiftedCenter(params, WholeTiles(Accumulated[1]),
                                  WholeTiles(Accumulated[2]))]_vars

\* the left edges (or top edges) at which renderTiles draws a set of tile
\* coordinates: tile.x + offsetRef.current.x
DrawnAt(coords, o) == {c + o : c \in coords}

\* do tiles of TILE_SIZE drawn at `edges` leave no gap between them and cover
\* the pixels 0 .. size - 1 (with no gap, covering the first and the last
\* pixel is covering them all)
CoversAxis(edges, size) ==
    /\ \A e \in edges : (e - TILE_SIZE) \in edges \/ \A f \in edges : e <= f
    /\ \A px \in {0, size - 1} :
          \E e \in edges : e <= px /\ px < e + TILE_SIZE

\* C14: the tiles getVisibleTiles lists for the current viewport and pan
\* offset, drawn at tile coordinate plus offset, cover every pixel column and
\* every pixel row of the canvas.
C14_TilesCoverCanvas ==
    variant = "tiled" =>
        LET visibleTiles == getVisibleTiles(params, offsetRef)
        IN  /\ CoversAxis(DrawnAt({v[1] : v \in visibleTiles}, offsetRef[1]),
                           params.width)
            /\ CoversAxis(DrawnAt({v[2] : v \in visibleTiles}, offsetRef[2]),
                           params.height)

\* C15: the zoom of the tiled component never goes below the minimum its
\* zoom control is configured with.
C15_ZoomAtLeastMinimum ==
    variant = "tiled" => ~RLess(params.zoom, Num(SLIDER_MIN))

\* C16: a wheel step at canvas position S leaves the plane point under S
\* where it was, whether it zooms in or out.
C16_ZoomKeepsPointUnderCursor ==
    [][handleWheel =>
          \A S \in WheelPoints : \A deltaY \in WheelDeltas :
              params' = Zoomed(params, ZoomFactor(deltaY), S[1], S[2])
                  => pixelToPlane(params', S[1], S[2])
                         = pixelToPlane(params, S[1], S[2])]_vars

\* C16's case: a zoom-out away from the canvas center, after a zoom-in, has
\* moved the center
C16_Witness ==
    /\ variant = "tiled"
    /\ \E f \in frames : f.kind = "wheel" /\ f.params.zoom = Num(275)
    /\ params.zoom = <<495, 2>>
    /\ params.center # [real |-> Num(0), imag |-> Num(0)]

\* the position in the draw list of the last draw of the tile (x, y, lod)
LastDraw(x, y, lod) ==
    CHOOSE i \in 1 .. Len(canvas) :
        /\ <<canvas[i].x, canvas[i].y, canvas[i].lod>> = <<x, y, lod>>
        /\ \A j \in (i + 1) .. Len(canvas) :
              <<canvas[j].x, canvas[j].y, canvas[j].lod>> # <<x, y, lod>>

\* C17: in the draws of a renderTiles pass, of two tiles with different lod
\* the one with the larger lod is drawn for the last time before the one
\* with the smaller lod is.
C17_CoarserDrawnFirst ==
    \A i, j \in 1 .. Len(canvas) :
        canvas[i].lod > canvas[j].lod
            => LastDraw(canvas[i].x, canvas[i].y, canvas[i].lod)
                   < LastDraw(canvas[j].x, canvas[j].y, canvas[j].lod)

\* C17's case: a pass drew tiles of three lods
C17_Witness ==
    /\ variant = "tiled"
    /\ {canvas[i].lod : i \in 1 .. Len(canvas)} = {COARSE_LOD, 2, FINE_LOD}

\* a message that is no JSON or is not a tile message with its fields
Malformed(msg) == msg.type # "tile"

\* C18: a step that receives a malformed message leaves the socket open,
\* schedules no reconnect and leaves the cache with the entries it had.
C18_MalformedDropped ==
    [][\A msg \in InboundMessages \cup LegacyMessages :
          (Malformed(msg)
              /\ (receive(msg, MaxDecoding) \/ receiveLegacy(msg)))
              => /\ ws' = ws
                 /\ reconnectTimer' = reconnectTimer
                 /\ tiles' = tiles]_vars

\* C19: at most one animation-frame callback is pending, and it is the one
\* animationFrameRef names: a pointer-move or wheel step cancels the pending
\* one before it asks for its own.
C19_OneFramePending ==
    /\ Cardinality(frames) <= 1
    /\ \A f \in frames : f.id = animationFrameRef

\* C19's case: two wheel events have each asked for a frame, and the one
\* pending is the second's
C19_Witness ==
    /\ variant = "tiled"
    /\ params.zoom = <<605, 2>>
    /\ Cardinality(frames) = 1
    /\ \A f \in frames : f.kind = "wheel" /\ f.params.zoom = Num(275)

\* C20: the request that the animation frame of a wheel event sends carries
\* the zoom and the center which that wheel event computed.
C20_WheelRequestCarriesNewViewport ==
    [][\A f \in frames :
          (animationFrame /\ frames' = frames \ {f} /\ lastSend'.cause = "wheel")
              => /\ lastSend'.msg.params.zoom = f.computed.zoom
                 /\ lastSend'.msg.params.center = f.computed.center]_vars

\* C21: every cached tile, which is what renderTiles draws and what
\* requestNewTiles counts as already present, shows the plane region that
\* its key denotes under the current center and zoom
C21_CachedTilesShowTheirRegion ==
    variant = "tiled" =>
        \A k \in DOMAIN tiles :
            tiles[k].shows = Region(Viewport(params), tiles[k].x, tiles[k].y)

\* the canvas pixel, on each axis, at which the plane origin is drawn when the
\* center is c, the zoom z and the pan offset o: center * zoom - offset
ViewInPixels(c, z, o) ==
    <<RSub(RMul(c.real, z), Num(o[1])), RSub(RMul(c.imag, z), Num(o[2]))>>

\* C22: a pointer-move that converts whole tiles into a center shift leaves
\* center * zoom - offset unchanged on each axis, and changes the offset by
\* an exact multiple of TILE_SIZE
C22_RecentringKeepsView ==
    [][(handleMouseMove /\ Crosses(Accumulated))
          => /\ ViewInPixels(params'.center, params'.zoom, offsetRef')
                  = ViewInPixels(params.center, params.zoom, Accumulated)
             /\ (Accumulated[1] - offsetRef'[1]) % TILE_SIZE = 0
             /\ (Accumulated[2] - offsetRef'[2]) % TILE_SIZE = 0]_vars

\* a drag of (300, -50) has been converted: 2 tiles and -1 tile went into the
\* center, (44, 78) stayed in the offset
C22_Witness ==
    /\ variant = "tiled"
    /\ isDragging
    /\ offsetRef = <<44, 78>>
    /\ params.center = ShiftedCenter(mountParams, 2, -1)
    /\ params.center # mountParams.center

\* C23: each component of the pan offset is, in absolute value, strictly
\* less than TILE_SIZE once a pointer-move handler has completed (no other
\* step writes the offset), whatever the size and sign of the mouse deltas
C23_OffsetBelowOneTile ==
    variant = "tiled" =>
        /\ Abs(offsetRef[1]) < TILE_SIZE
        /\ Abs(offsetRef[2]) < TILE_SIZE

\* a pointer-move of (-350, 50), from (400, 50) to (50, 100), has completed:
\* -3 tiles went into the center and (34, 50) stayed in the offset
C23_Witness ==
    /\ variant = "tiled"
    /\ isDragging
    /\ lastMousePosition = <<50, 100>>
    /\ offsetRef = <<34, 50>>
    /\ params.center = ShiftedCenter(mountParams, -3, 0)

\* C24: once the component is unmounted and its cleanup has closed the
\* socket, no step starts a reconnect timer and no step opens a connection:
\* the close made by the cleanup starts no reconnect
C24_NoReconnectAfterUnmount ==
    [][~mounted =>
          /\ Running(reconnectTimer') => Running(reconnectTimer)
          /\ ws'.readyState = "CONNECTING" => ws.readyState = "CONNECTING"]_vars

====
